---- MODULE Spec2Model ----
(***************************************************************************)
(* A model of nmt.py: the train command's epoch loop (teacher-forcing      *)
(* decay, validation schedule, checkpoint names and resuming from them)    *)
(* and the decode command (beam search over a batch, rendering of the top  *)
(* hypothesis of every example).                                           *)
(***************************************************************************)
EXTENDS Integers, Sequences, FiniteSets, TLC

(***************************************************************************)
(* Bounds of the model.                                                    *)
(***************************************************************************)
\* The last epoch index a modelled train run executes (the code has no bound).
EpochCap == 19
\* Batches per epoch that batch_iter yields.
NumBatches == 1
\* The largest --valid-every tried.
MaxValidEvery == 3
\* The --max-epoch value passed on the command line.
MaxEpochArg == 3
\* The largest beam width k tried.
MaxBeam == 3
\* The largest step limit T tried.
MaxSteps == 3

(***************************************************************************)
(* Python floats are IEEE-754 binary64.  Every ratio the train loop holds  *)
(* lies in [0.05, 1.0], so it is an integer multiple N of 2^-57 with       *)
(* N <= 2^57.  N is kept as three limbs <<a, b, c>> in base 2^19:          *)
(* N = a * 2^38 + b * 2^19 + c.                                            *)
(***************************************************************************)
Base == 524288

RECURSIVE Pow2(_)
Pow2(n) == IF n = 0 THEN 1 ELSE 2 * Pow2(n - 1)

\* The number of bits of N below its 53-bit significand:
\* 2^(52+s) <= N < 2^(53+s), and N >= 2^52 means a >= 2^14.
Shift(a) == CHOOSE s \in 0..5 : Pow2(14 + s) <= a /\ a < Pow2(15 + s)

\* Carry propagation after an increment of the low limb.
FNorm(x) ==
  LET c  == x[3] % Base
      b0 == x[2] + (x[3] \div Base)
      b  == b0 % Base
      a  == x[1] + (b0 \div Base)
  IN  <<a, b, c>>

\* Round the exact value x + num/den (in units of 2^-57, 0 <= num < den) to
\* the nearest double, ties to even.
FRound(x, num, den) ==
  LET m     == Pow2(Shift(x[1]))
      rem   == x[3] % m
      low   == x[3] - rem
      twice == 2 * (rem * den + num)
      ulp   == m * den
      up    == twice > ulp \/ (twice = ulp /\ (low \div m) % 2 = 1)
  IN  IF up THEN FNorm(<<x[1], x[2], low + m>>) ELSE <<x[1], x[2], low>>

\* float("<num/den>"): the double nearest to the decimal num/den.
FParse(num, den) ==
  LET t1 == num * Base
      a  == t1 \div den
      t2 == (t1 % den) * Base
      b  == t2 \div den
      t3 == (t2 % den) * Base
      c  == t3 \div den
  IN  FRound(<<a, b, c>>, t3 % den, den)

\* x - y in double arithmetic (x > y).
FSub(x, y) ==
  LET c0 == x[3] - y[3]
      bc == IF c0 < 0 THEN 1 ELSE 0
      b0 == x[2] - y[2] - bc
      bb == IF b0 < 0 THEN 1 ELSE 0
      a0 == x[1] - y[1] - bb
  IN  FRound(<<a0, b0 + bb * Base, c0 + bc * Base>>, 0, 1)

\* x > y on doubles.
FGreater(x, y) ==
  \/ x[1] > y[1]
  \/ x[1] = y[1] /\ x[2] > y[2]
  \/ x[1] = y[1] /\ x[2] = y[2] /\ x[3] > y[3]

\* "{:.2f}".format(x): the number of hundredths nearest to x, ties to even.
Format2(x) ==
  LET c100 == x[3] * 100
      cL   == c100 % Base
      b100 == x[2] * 100 + (c100 \div Base)
      bL   == b100 % Base
      a100 == x[1] * 100 + (b100 \div Base)
      h    == a100 \div Base
      rA   == a100 % Base
      half == Base \div 2
      up   == \/ rA > half
              \/ rA = half /\ (bL > 0 \/ cL > 0)
              \/ rA = half /\ bL = 0 /\ cL = 0 /\ h % 2 = 1
  IN  IF up THEN h + 1 ELSE h

(***************************************************************************)
(* The state: of the train command (two runs), and of the decode command.  *)
(***************************************************************************)
VARIABLES
  args,             \* the parsed command line
  pc,               \* per run: "off", "top" (line 108) or "batches" (line 119)
  epoch,            \* per run: the epoch counter
  teacher_forcing,  \* per run: the current ratio, a double
  train_iter,       \* per run: batches trained in the current epoch
  load_from,        \* per run: the checkpoint name given as --load-from, or <<>>
  saved,            \* the checkpoint names written under --save-to
  log               \* per run: what each finished epoch did

trainVars == <<args, pc, epoch, teacher_forcing, train_iter, load_from, saved, log>>

VARIABLES
  beam_size,               \* k
  max_decoding_time_step,  \* T
  pcD,            \* "off", "search", "render", "written" or "crashed"
  step,           \* the global step counter of the batch decode
  alive,          \* per example: the hypotheses still being extended
  completed,      \* per example: the frozen hypotheses, best first
  newly,          \* per example: how many were completed by the last step
  failed,         \* per example: the scoring step failed
  fed,            \* per example: the step function's answers so far
  calls,          \* per example: step-function calls issued for its hypotheses
  hypotheses,     \* what beam_search returned, per example
  output          \* the lines written to OUTPUT_FILE

decodeVars == <<beam_size, max_decoding_time_step, pcD, step, alive, completed,
                newly, failed, fed, calls, hypotheses, output>>

vars == <<trainVars, decodeVars>>

(***************************************************************************)
(* The train command.  Run 1 is started from scratch; run 2 is a later     *)
(* invocation with --load-from naming a checkpoint that run 1 has written  *)
(* and otherwise the same arguments, while run 1 goes on uninterrupted.    *)
(***************************************************************************)
Runs == {1, 2}
\* --teacher-forcing values tried, in hundredths: the default 1.0, and 0.3.
TeacherForcingArgs == {100, 30}
ValidEveryArgs == 1..MaxValidEvery


\* The literals 0.05 and 0.1 of the decay test.
F005 == FParse(5, 100)
F01 == FParse(10, 100)

\* DecayDue with the modulus valid_every instead of valid_every + 1.
DecayDueModValidEvery(e, valid_every, tf) ==
  e >= 10 /\ e % valid_every = 0 /\ FGreater(tf, FParse(10, 100))

\* Line 109: the epochs at whose start the ratio is decayed.
DecayDue(e, valid_every, tf) ==
  e >= 10 /\ e % (valid_every + 1) = 0 /\ FGreater(tf, F01)

\* Line 110.
Decay(tf) == FSub(tf, F005)

\* ValidationDue without the test epoch > 0.
ValidationDueFromEpochZero(e, valid_every) == e % valid_every = 0

\* Line 165: the epochs at whose end validation is run.
ValidationDue(e, valid_every) == e > 0 /\ e % valid_every = 0

\* Lines 175 and 180: the checkpoint's file name, as the fields that
\* split('_') yields.  Loss, perplexity and BLEU are rendered by "{:.2f}",
\* which never contains '_'; their values are left opaque.
LongName(e, tf) ==
  <<"epoch", e, "trainLoss", "loss", "devPerp", "ppl", "devBleu", "bleu",
    "TF", Format2(tf)>>
ShortName(e, tf) == <<"epoch", e, "trainLoss", "loss", "TF", Format2(tf)>>

\* Lines 103-105: params[1] and params[-1] of the split name (0-based there).
LoadedEpoch(params) == params[2] + 1
LoadedTeacherForcing(params) == FParse(params[Len(params)], 100)

TrainInit ==
  /\ args \in [valid_every : ValidEveryArgs,
               teacher_forcing : TeacherForcingArgs,
               max_epoch : {MaxEpochArg}]
  /\ pc = [r \in Runs |-> IF r = 1 THEN "top" ELSE "off"]
  /\ epoch = [r \in Runs |-> 0]
  /\ teacher_forcing = [r \in Runs |-> FParse(args.teacher_forcing, 100)]
  /\ train_iter = [r \in Runs |-> 0]
  /\ load_from = [r \in Runs |-> <<>>]
  /\ saved = {}
  /\ log = [r \in Runs |-> <<>>]

\* Lines 102-105: run 2 starts from a checkpoint found under --save-to.
Resume(f) ==
  /\ pc[2] = "off"
  /\ f \in saved
  /\ load_from' = [load_from EXCEPT ![2] = f]
  /\ epoch' = [epoch EXCEPT ![2] = LoadedEpoch(f)]
  /\ teacher_forcing' = [teacher_forcing EXCEPT ![2] = LoadedTeacherForcing(f)]
  /\ pc' = [pc EXCEPT ![2] = "top"]
  /\ UNCHANGED <<args, train_iter, saved, log>>
  /\ UNCHANGED decodeVars

\* Lines 108-117: the top of the while loop.
LoopTop(r) ==
  /\ pc[r] = "top"
  /\ epoch[r] <= EpochCap
  /\ teacher_forcing' =
       [teacher_forcing EXCEPT
          ![r] = IF DecayDue(epoch[r], args.valid_every, @) THEN Decay(@) ELSE @]
  /\ train_iter' = [train_iter EXCEPT ![r] = 0]
  /\ pc' = [pc EXCEPT ![r] = "batches"]
  /\ UNCHANGED <<args, epoch, load_from, saved, log>>
  /\ UNCHANGED decodeVars

\* Lines 119-159: one batch, trained with TF=teacher_forcing.
TrainBatch(r) ==
  /\ pc[r] = "batches"
  /\ train_iter[r] < NumBatches
  /\ train_iter' = [train_iter EXCEPT ![r] = @ + 1]
  /\ UNCHANGED <<args, pc, epoch, teacher_forcing, load_from, saved, log>>
  /\ UNCHANGED decodeVars

\* Lines 161-183: validation when due, the checkpoint, and epoch += 1.
EpochEnd(r) ==
  /\ pc[r] = "batches"
  /\ train_iter[r] = NumBatches
  /\ LET validate == ValidationDue(epoch[r], args.valid_every)
         backup_file == IF validate
                          THEN LongName(epoch[r], teacher_forcing[r])
                          ELSE ShortName(epoch[r], teacher_forcing[r])
     IN  /\ saved' = saved \cup {backup_file}
         /\ log' = [log EXCEPT
                      ![r] = Append(@, [epoch |-> epoch[r],
                                        tf |-> Format2(teacher_forcing[r]),
                                        validated |-> validate,
                                        file |-> backup_file])]
  /\ epoch' = [epoch EXCEPT ![r] = @ + 1]
  /\ pc' = [pc EXCEPT ![r] = "top"]
  /\ UNCHANGED <<args, teacher_forcing, train_iter, load_from>>
  /\ UNCHANGED decodeVars

TrainNext ==
  \/ \E f \in saved : Resume(f)
  \/ \E r \in Runs : LoopTop(r)
  \/ \E r \in Runs : TrainBatch(r)
  \/ \E r \in Runs : EpochEnd(r)


(***************************************************************************)
(* Properties of the train command.                                        *)
(***************************************************************************)

\* C6: the train command terminates: a run trains at most --max-epoch
\* epochs and then stops.  (The loop of line 108 has no exit and reads
\* neither --max-epoch nor --max-num-trial.)
TrainStopsAtMaxEpoch == Len(log[1]) <= args.max_epoch

\* C7 as stated: in a run started from scratch, validation is performed
\* after every valid_every training epochs, the first time once valid_every
\* epochs have been trained (the i-th trained epoch validates iff valid_every
\* divides i).
ValidationAfterEveryValidEveryEpochs ==
  \A i \in 1..Len(log[1]) :
    log[1][i].validated <=> (i % args.valid_every = 0)

\* C7 as amended: in a run started from scratch, the i-th trained epoch (the
\* epoch numbered i - 1) ends with validation exactly when i > 1 and
\* valid_every divides i - 1: the first validation comes once
\* valid_every + 1 epochs have been trained, then one follows every
\* valid_every epochs.
ValidationSkipsFirstEpoch ==
  \A i \in 1..Len(log[1]) :
    /\ log[1][i].epoch = i - 1
    /\ log[1][i].validated <=> (i > 1 /\ (i - 1) % args.valid_every = 0)

\* C7's case: with --valid-every 2, five epochs trained, the third and the
\* fifth validated and the second and fourth not.
ValidationSkipsFirstEpochWitness ==
  /\ args.valid_every = 2
  /\ Len(log[1]) = 5
  /\ log[1][3].validated /\ log[1][5].validated
  /\ ~log[1][2].validated /\ ~log[1][4].validated

\* C8: in a started run the teacher-forcing ratio changes only in the step
\* at the top of an epoch, only for an epoch e >= 10 with
\* e mod (valid_every + 1) = 0 and a ratio > 0.1, there always, and then by
\* the subtraction of 0.05 (a decrease, of 0.05 to two decimals); every other
\* step leaves it as it is.
TeacherForcingOnlyDecays ==
  [][\A r \in Runs :
       pc[r] # "off" =>
         IF /\ pc[r] = "top" /\ pc'[r] = "batches"
            /\ epoch[r] >= 10
            /\ epoch[r] % (args.valid_every + 1) = 0
            /\ FGreater(teacher_forcing[r], FParse(10, 100))
         THEN /\ teacher_forcing'[r] = FSub(teacher_forcing[r], FParse(5, 100))
              /\ FGreater(teacher_forcing[r], teacher_forcing'[r])
              /\ Format2(teacher_forcing'[r]) = Format2(teacher_forcing[r]) - 5
         ELSE teacher_forcing'[r] = teacher_forcing[r]]_trainVars

\* C8's case: a run inside epoch 12 whose ratio, 1.0 at the start, has been
\* decayed twice (at epochs 10 and 12, --valid-every 1).
TeacherForcingOnlyDecaysWitness ==
  /\ args.valid_every = 1
  /\ args.teacher_forcing = 100
  /\ pc[1] = "batches" /\ epoch[1] = 12
  /\ Format2(teacher_forcing[1]) = 90

\* C10: a run resumed from a checkpoint written at the end of epoch e starts
\* at epoch e + 1 and from there goes through the same (epoch, ratio to two
\* decimals, validate-or-not) as the run that wrote the checkpoint.
ResumedRunFollowsUninterruptedRun ==
  /\ (Len(log[2]) > 0 => log[2][1].epoch = load_from[2][2] + 1)
  /\ \A i \in 1..Len(log[2]) : \A j \in 1..Len(log[1]) :
       log[2][i].epoch = log[1][j].epoch =>
         /\ log[2][i].tf = log[1][j].tf
         /\ log[2][i].validated = log[1][j].validated

(***************************************************************************)
(* The decode command: test() of nmt.py, which calls beam_search (of       *)
(* utils, not among the sources; modelled from the specification's         *)
(* sections 3, 4.1, 4.2 and 7) and renders entry 0 of every example's      *)
(* list.                                                                   *)
(***************************************************************************)
Examples == {1, 2}

\* The vocabulary's sentinel ids and the ids of the other tokens.
StartId == 0
EndId == 1
Vocab == <<0, 1, 2, 3, 4, 5>>

\* vocab.tgt.get_word
Word(id) == <<"<s>", "</s>", "a", "b", "c", "d">>[id + 1]

\* What the step function can answer for one example at one step: one of
\* three log-probability vectors over Vocab (scaled to integers), or a failure.
Logits(d) ==
  CASE d = "NoEnd"     -> <<-30, -31, -1, -2, -3, -4>>
    [] d = "EndBest"   -> <<-30, -1, -2, -3, -4, -5>>
    [] d = "EndSecond" -> <<-30, -2, -1, -3, -4, -5>>
Answers == {"NoEnd", "EndBest", "EndSecond", "raise"}


Min(a, b) == IF a < b THEN a ELSE b
Take(s, n) == SubSeq(s, 1, Min(n, Len(s)))

\* Stable sort by descending score: equal scores keep their order.
RECURSIVE InsertDesc(_, _)
InsertDesc(s, x) ==
  IF s = <<>> THEN <<x>>
  ELSE IF Head(s).score >= x.score THEN <<Head(s)>> \o InsertDesc(Tail(s), x)
  ELSE <<x>> \o s
RECURSIVE SortDesc(_)
SortDesc(s) ==
  IF s = <<>> THEN <<>>
  ELSE InsertDesc(SortDesc(SubSeq(s, 1, Len(s) - 1)), s[Len(s)])

RECURSIVE Concat(_)
Concat(ss) == IF ss = <<>> THEN <<>> ELSE Head(ss) \o Concat(Tail(ss))

\* The seed hypothesis of an example.
Seed == [value |-> <<StartId>>, score |-> 0, forced |-> FALSE]

\* 4.1 step 6: an example's beam is resolved.
Resolved(al, co, k) == Len(co) = k \/ Len(al) = 0

\* 4.1 step 2: the top-k next tokens of one hypothesis, as candidates.
Extensions(h, d, k) ==
  LET ranked == SortDesc([i \in 1..Len(Vocab) |->
                            [tok |-> Vocab[i], score |-> Logits(d)[i]]])
  IN  [i \in 1..Min(k, Len(ranked)) |->
         [value |-> Append(h.value, ranked[i].tok),
          score |-> h.score + ranked[i].score,
          forced |-> FALSE]]

\* 4.1 step 3: the pool of all candidates of an example, and its global top k.
Survivors(al, d, k) ==
  Take(SortDesc(Concat([i \in 1..Len(al) |-> Extensions(al[i], d, k)])), k)

Ended(h) == h.value[Len(h.value)] = EndId
NotEnded(h) == ~Ended(h)

\* Completed without the bound k on the completed set.
CompletedUnbounded(co, surv, k) == SortDesc(co \o SelectSeq(surv, Ended))

\* 4.1 step 4 and section 3: the completed set after a step, bounded by k.
Completed(co, surv, k) == Take(SortDesc(co \o SelectSeq(surv, Ended)), k)

\* 4.1 step 5: the alive set after a step.
Alive(surv) == SelectSeq(surv, NotEnded)

\* ForceComplete that freezes the best alive hypothesis only.
ForceCompleteBest(al) ==
  [i \in 1..Min(1, Len(al)) |-> [al[i] EXCEPT !.forced = TRUE]]

\* 4.1 edge case: what the example returns when the decode ends.
ForceComplete(al) == [i \in 1..Len(al) |-> [al[i] EXCEPT !.forced = TRUE]]
\* Returned without the force-completion of the alive hypotheses.
ReturnedCompletedOnly(al, co, k) == co

Returned(al, co, k) ==
  IF Resolved(al, co, k) THEN co
  ELSE Take(SortDesc(co \o ForceComplete(al)), k)

\* Stepped that goes on while hypotheses are alive, whatever completed holds.
SteppedWhileAlive(ex) == Len(alive[ex]) > 0

\* 4.2: the examples the step function is invoked for at a global step.
Stepped(ex) == ~Resolved(alive[ex], completed[ex], beam_size)

DecodeInit ==
  /\ beam_size \in 1..MaxBeam
  /\ max_decoding_time_step \in 1..MaxSteps
  /\ pcD = "search"
  /\ step = 0
  /\ alive = [ex \in Examples |-> <<Seed>>]
  /\ completed = [ex \in Examples |-> <<>>]
  /\ newly = [ex \in Examples |-> 0]
  /\ failed = [ex \in Examples |-> FALSE]
  /\ fed = [ex \in Examples |-> <<>>]
  /\ calls = [ex \in Examples |-> 0]
  /\ hypotheses = [ex \in Examples |-> <<>>]
  /\ output = <<>>

\* 4.2: one global step of the batch decode; ans is the step function's
\* answer per example ("skip" for an example that is not stepped).
DecodeStep(ans) ==
  /\ pcD = "search"
  /\ step < max_decoding_time_step
  /\ \E ex \in Examples : Stepped(ex)
  /\ \A ex \in Examples : (ans[ex] = "skip") <=> ~Stepped(ex)
  /\ step' = step + 1
  /\ calls' = [ex \in Examples |->
                 IF Stepped(ex) THEN calls[ex] + Len(alive[ex]) ELSE calls[ex]]
  /\ fed' = [ex \in Examples |->
               IF Stepped(ex) THEN Append(fed[ex], ans[ex]) ELSE fed[ex]]
  /\ failed' = [ex \in Examples |-> failed[ex] \/ ans[ex] = "raise"]
  /\ LET surv(ex) == Survivors(alive[ex], ans[ex], beam_size)
         live(ex) == Stepped(ex) /\ ans[ex] # "raise"
     IN  /\ alive' = [ex \in Examples |->
                        IF live(ex) THEN Alive(surv(ex))
                        ELSE IF Stepped(ex) THEN <<>> ELSE alive[ex]]
         /\ completed' = [ex \in Examples |->
                            IF live(ex)
                              THEN Completed(completed[ex], surv(ex), beam_size)
                            ELSE IF Stepped(ex) THEN <<>> ELSE completed[ex]]
         /\ newly' = [ex \in Examples |->
                        IF live(ex) THEN Len(SelectSeq(surv(ex), Ended)) ELSE 0]
  /\ UNCHANGED <<beam_size, max_decoding_time_step, pcD, hypotheses, output>>
  /\ UNCHANGED trainVars

\* 4.2 and 7: the batch decode ends; a failed example's result is empty.
BeamReturn ==
  /\ pcD = "search"
  /\ step = max_decoding_time_step \/ \A ex \in Examples : ~Stepped(ex)
  /\ hypotheses' = [ex \in Examples |->
                      IF failed[ex] THEN <<>>
                      ELSE Returned(alive[ex], completed[ex], beam_size)]
  /\ pcD' = "render"
  /\ UNCHANGED <<beam_size, max_decoding_time_step, step, alive, completed,
                 newly, failed, fed, calls, output>>
  /\ UNCHANGED trainVars

\* Line 204: hyps[0].value[1:-1], each id rendered by get_word.
TopLine(hyps) ==
  LET value == hyps[1].value
  IN  [i \in 1..(Len(value) - 2) |-> Word(value[i + 1])]

\* Lines 204-219: entry 0 of every list is rendered (an empty list raises
\* IndexError there, before any file is opened), then one line per entry of
\* top_hypotheses is written.
Render ==
  /\ pcD = "render"
  /\ IF \E ex \in Examples : Len(hypotheses[ex]) = 0
       THEN pcD' = "crashed" /\ output' = output
       ELSE pcD' = "written" /\ output' = [ex \in Examples |-> TopLine(hypotheses[ex])]
  /\ UNCHANGED <<beam_size, max_decoding_time_step, step, alive, completed,
                 newly, failed, fed, calls, hypotheses>>
  /\ UNCHANGED trainVars

DecodeNext ==
  \/ \E ans \in [Examples -> Answers \cup {"skip"}] : DecodeStep(ans)
  \/ BeamReturn
  \/ Render

(***************************************************************************)
(* main(): the command line selects train or decode; the other command's   *)
(* state stays idle.                                                       *)
(***************************************************************************)
TrainIdle ==
  /\ args = [valid_every |-> 1, teacher_forcing |-> 100, max_epoch |-> MaxEpochArg]
  /\ pc = [r \in Runs |-> "off"]
  /\ epoch = [r \in Runs |-> 0]
  /\ teacher_forcing = [r \in Runs |-> FParse(100, 100)]
  /\ train_iter = [r \in Runs |-> 0]
  /\ load_from = [r \in Runs |-> <<>>]
  /\ saved = {}
  /\ log = [r \in Runs |-> <<>>]

DecodeIdle ==
  /\ beam_size = 1
  /\ max_decoding_time_step = 1
  /\ pcD = "off"
  /\ step = 0
  /\ alive = [ex \in Examples |-> <<>>]
  /\ completed = [ex \in Examples |-> <<>>]
  /\ newly = [ex \in Examples |-> 0]
  /\ failed = [ex \in Examples |-> FALSE]
  /\ fed = [ex \in Examples |-> <<>>]
  /\ calls = [ex \in Examples |-> 0]
  /\ hypotheses = [ex \in Examples |-> <<>>]
  /\ output = <<>>

InitTrainCommand == TrainInit /\ DecodeIdle
InitDecodeCommand == DecodeInit /\ TrainIdle

SpecTrain == InitTrainCommand /\ [][TrainNext]_vars
SpecDecode == InitDecodeCommand /\ [][DecodeNext]_vars

Init == InitTrainCommand \/ InitDecodeCommand
Next == TrainNext \/ DecodeNext
Spec == Init /\ [][Next]_vars

(***************************************************************************)
(* Properties of the decode command.                                       *)
(***************************************************************************)
Searched == pcD \in {"render", "written", "crashed"}

ResolvedExamplesAreNotStepped ==
  [][\A ex \in Examples :
       IF Len(completed[ex]) = beam_size \/ Len(alive[ex]) = 0
         THEN /\ calls'[ex] = calls[ex]
              /\ fed'[ex] = fed[ex]
              /\ alive'[ex] = alive[ex]
              /\ completed'[ex] = completed[ex]
         ELSE step' = step + 1 =>
                /\ calls'[ex] = calls[ex] + Len(alive[ex])
                /\ Len(fed'[ex]) = Len(fed[ex]) + 1]_vars

\* C2's case: k = 2, three global steps; example 1 resolved after 2 steps
\* (2 calls), example 2 was stepped at all 3 (5 calls).
ResolvedExamplesAreNotSteppedWitness ==
  /\ pcD = "search" /\ beam_size = 2 /\ step = 3
  /\ ~failed[1] /\ ~failed[2]
  /\ Len(fed[1]) = 2 /\ calls[1] = 2 /\ Len(completed[1]) = 2
  /\ Len(fed[2]) = 3 /\ calls[2] = 5

SingleStepReturnsOneHypothesis ==
  (Searched /\ max_decoding_time_step = 1) =>
    \A ex \in Examples :
      fed[ex] = <<"NoEnd">> =>
        /\ Len(hypotheses[ex]) = 1
        /\ hypotheses[ex][1].forced
        /\ Len(hypotheses[ex][1].value) = 2

\* C4 as amended: with T = 1 and a step function that never emits the end
\* sentinel (over a vocabulary with at least k other tokens), every example
\* returns exactly k hypotheses, each force-completed and of length 2: the
\* start token followed by one generated token, not the end sentinel.
SingleStepReturnsBeamSizeHypotheses ==
  (Searched /\ max_decoding_time_step = 1) =>
    \A ex \in Examples :
      fed[ex] = <<"NoEnd">> =>
        /\ Len(hypotheses[ex]) = beam_size
        /\ \A i \in 1..Len(hypotheses[ex]) :
             /\ hypotheses[ex][i].forced
             /\ Len(hypotheses[ex][i].value) = 2
             /\ hypotheses[ex][i].value[1] = StartId
             /\ hypotheses[ex][i].value[2] # EndId

\* C4's case: T = 1, k = 3, the end sentinel never emitted for example 1,
\* which returns 3 hypotheses.
SingleStepReturnsBeamSizeHypothesesWitness ==
  /\ pcD = "render" /\ max_decoding_time_step = 1 /\ beam_size = 3
  /\ fed[1] = <<"NoEnd">> /\ Len(hypotheses[1]) = 3

\* C5: when the scoring step fails for one example, that example's result
\* is empty, and the decode command still ends having written its output,
\* with the line of every other example.
StepFailureIsIsolated ==
  (Searched /\ \E ex \in Examples : failed[ex]) =>
    /\ \A ex \in Examples : failed[ex] => hypotheses[ex] = <<>>
    /\ pcD # "crashed"
    /\ pcD = "written" =>
         \A ex \in Examples :
           ~failed[ex] => output[ex] = TopLine(hypotheses[ex])

NotSentinel(id) == id # StartId /\ id # EndId
Words(ids) == [i \in 1..Len(ids) |-> Word(ids[i])]

\* C9: the decode command writes one line per input, and the line holds the
\* text of every token the top-ranked hypothesis generated other than the
\* sentinels, whether it ended with the end sentinel or was force-completed.
DecodedLineHasEveryGeneratedToken ==
  pcD = "written" =>
    /\ Len(output) = Cardinality(Examples)
    /\ \A ex \in Examples :
         output[ex] =
           Words(SelectSeq(Tail(hypotheses[ex][1].value), NotSentinel))

====
